---------------------------- MODULE Spec2Model ----------------------------
(***************************************************************************)
(* A model of the hole-mask component (src/src/MaskLayer.tsx): the length  *)
(* parser, the shape-specific size normalisation, the anchor-relative      *)
(* boundary derivation, the circular hit-test and the click handlers.      *)
(*                                                                         *)
(* Text is a sequence of one-character strings, so that the regular        *)
(* expression, String.split and the template literals of the source act on *)
(* characters.  A JavaScript number is an exact decimal m / 10^e (record   *)
(* [m, e], kept normalised): every number the source computes from the     *)
(* inputs below is a short decimal, so binary rounding is not modelled.    *)
(***************************************************************************)
EXTENDS Integers, Sequences, FiniteSets, TLC

VARIABLES
    holePosition,   \* props.holePosition: [x, y, size, anchor, shape]
    rect,           \* the container box: getBoundingClientRect() width/height
    pc,             \* "mount" | "rendered" | "failed" | "input" | "done"
    view,           \* what MaskLayer returned (or the error it threw)
    click,          \* the last click handled and what the handler did
    overlayClicks,  \* App: number of onOverlayClick calls
    unmaskedClicks, \* App: number of clicks that reached the parent
    value,          \* the text handed to parseValue (parser specification)
    parsed,         \* what parseValue returned or threw (parser specification)
    normalized      \* what the size normalisation returned (size specification)

vars == <<holePosition, rect, pc, view, click, overlayClicks, unmaskedClicks, value, parsed, normalized>>

-----------------------------------------------------------------------------
(* Bounds of the model *)

\* longest text enumerated for the parser specification
MaxTextLen == 4

\* most tokens joined into a size text for the size specification
MaxTokens == 3

\* most clicks handled in one behaviour
MaxClicks == 2

-----------------------------------------------------------------------------
(* Text *)

Digits == <<"0", "1", "2", "3", "4", "5", "6", "7", "8", "9">>

IsDigit(c) == \E i \in 1..10 : Digits[i] = c

DigitVal(c) == (CHOOSE i \in 1..10 : Digits[i] = c) - 1

SPACE == " "

T_px == <<"p", "x">>

T_pct == <<"%">>

T_calc == <<"c", "a", "l", "c", "(">>

T_close == <<")">>

\* String.prototype.includes(' ')
includes(s, c) == \E i \in 1..Len(s) : s[i] = c

RECURSIVE splitFrom(_, _, _, _)
\* the pieces of s from position i on, cur being the piece under construction
splitFrom(s, c, i, cur) ==
    IF i > Len(s) THEN <<cur>>
    ELSE IF s[i] = c THEN <<cur>> \o splitFrom(s, c, i + 1, <<>>)
    ELSE splitFrom(s, c, i + 1, Append(cur, s[i]))

\* String.prototype.split(c) for a one-character separator: every occurrence
\* separates, so adjacent separators and leading/trailing ones give empty pieces
split(s, c) == splitFrom(s, c, 1, <<>>)

-----------------------------------------------------------------------------
(* Numbers: exact decimals m / 10^e *)

RECURSIVE Pow10(_)
Pow10(n) == IF n = 0 THEN 1 ELSE 10 * Pow10(n - 1)

RECURSIVE DecNorm(_)
DecNorm(d) ==
    IF d.e > 0 /\ d.m % 10 = 0 THEN DecNorm([m |-> d.m \div 10, e |-> d.e - 1])
    ELSE d

DecInt(n) == [m |-> n, e |-> 0]

Max(a, b) == IF a >= b THEN a ELSE b

Min(a, b) == IF a <= b THEN a ELSE b

\* the mantissa of d at exponent e >= d.e
AtExp(d, e) == d.m * Pow10(e - d.e)

DecAdd(a, b) ==
    LET e == Max(a.e, b.e) IN DecNorm([m |-> AtExp(a, e) + AtExp(b, e), e |-> e])

DecSub(a, b) ==
    LET e == Max(a.e, b.e) IN DecNorm([m |-> AtExp(a, e) - AtExp(b, e), e |-> e])

DecMul(a, b) == DecNorm([m |-> a.m * b.m, e |-> a.e + b.e])

\* d / 2
DecHalf(d) == DecNorm([m |-> d.m * 5, e |-> d.e + 1])

\* d / 100
DecDiv100(d) == DecNorm([m |-> d.m, e |-> d.e + 2])

DecLeq(a, b) == LET e == Max(a.e, b.e) IN AtExp(a, e) <= AtExp(b, e)

RECURSIVE DigitsToNat(_)
DigitsToNat(s) ==
    IF s = <<>> THEN 0
    ELSE 10 * DigitsToNat(SubSeq(s, 1, Len(s) - 1)) + DigitVal(s[Len(s)])

\* parseFloat on the text the regular expression captured: digits, then
\* optionally '.' and digits
parseFloat(s) ==
    LET dot == IF includes(s, ".") THEN CHOOSE i \in 1..Len(s) : s[i] = "." ELSE 0
        int == IF dot = 0 THEN s ELSE SubSeq(s, 1, dot - 1)
        frac == IF dot = 0 THEN <<>> ELSE SubSeq(s, dot + 1, Len(s))
    IN  DecNorm([m |-> DigitsToNat(int \o frac), e |-> Len(frac)])

RECURSIVE NatToText(_)
NatToText(n) ==
    IF n < 10 THEN <<Digits[n + 1]>>
    ELSE NatToText(n \div 10) \o <<Digits[(n % 10) + 1]>>

RECURSIVE PadLeft(_, _)
PadLeft(s, n) == IF Len(s) >= n THEN s ELSE PadLeft(<<"0">> \o s, n)

\* Number::toString of a non-negative number, as a template literal `${n}`
\* formats it: no leading zeros, no trailing zeros, no '.' for an integer
NumToString(d) ==
    LET n == DecNorm(d)
        p == Pow10(n.e)
    IN  IF n.e = 0 THEN NatToText(n.m)
        ELSE NatToText(n.m \div p) \o <<".">> \o PadLeft(NatToText(n.m % p), n.e)

-----------------------------------------------------------------------------
(* Errors: `throw new Error(message)`, by the fixed start of the message   *)
(* and the text the message carries                                        *)

ERR_POSITION == "Invalid position value"

ERR_RECTANGLE == "Invalid rectangle dimensions"

Err(kind, text) == [error |-> kind, text |-> text]

IsErr(r) == "error" \in DOMAIN r

-----------------------------------------------------------------------------
(* parseValue *)

RECURSIVE DigitRun(_, _)
\* how many digits s holds from position i on
DigitRun(s, i) ==
    IF i <= Len(s) /\ IsDigit(s[i]) THEN 1 + DigitRun(s, i + 1) ELSE 0

NoMatch == <<>>

\* a mutation: the pattern without its closing '$'
Match_unanchored(s) ==
    LET n1 == DigitRun(s, 1)
        j == 1 + n1
        n2 == IF j <= Len(s) /\ s[j] = "." THEN DigitRun(s, j + 1) ELSE 0
        k == IF n2 > 0 THEN j + 1 + n2 ELSE j
    IN  IF n1 = 0 THEN NoMatch
        ELSE IF k + 1 <= Len(s) /\ SubSeq(s, k, k + 1) = T_px THEN <<SubSeq(s, 1, k - 1), T_px>>
        ELSE IF k <= Len(s) /\ s[k] = "%" THEN <<SubSeq(s, 1, k - 1), T_pct>>
        ELSE NoMatch

\* value.match(/^(\d+(?:\.\d+)?)(px|%)$/): the two captures, or NoMatch.
\* \d+ and the optional group are greedy; giving digits back never helps,
\* because neither unit starts with a digit or '.'
Match(s) ==
    LET n1 == DigitRun(s, 1)
        j == 1 + n1
        n2 == IF j <= Len(s) /\ s[j] = "." THEN DigitRun(s, j + 1) ELSE 0
        k == IF n2 > 0 THEN j + 1 + n2 ELSE j
        rest == SubSeq(s, k, Len(s))
    IN  IF n1 = 0 THEN NoMatch
        ELSE IF rest = T_px \/ rest = T_pct THEN <<SubSeq(s, 1, k - 1), rest>>
        ELSE NoMatch

parseValue(v) ==
    LET match == Match(v) IN
    IF match = NoMatch THEN Err(ERR_POSITION, v)
    ELSE [value |-> parseFloat(match[1]), unit |-> match[2]]

-----------------------------------------------------------------------------
(* Size normalisation *)

SHAPE_RECTANGLE == "SHAPE_RECTANGLE"

SHAPE_SQUARE == "SHAPE_SQUARE"

SHAPE_CIRCLE == "SHAPE_CIRCLE"

\* a mutation: the two captures stored the other way round
parseRectangleDimensions_swapped(v) ==
    LET parts == split(v, SPACE)
        widthMatch == IF Len(parts) = 2 THEN Match(parts[1]) ELSE NoMatch
        heightMatch == IF Len(parts) = 2 THEN Match(parts[2]) ELSE NoMatch
    IN  IF Len(parts) # 2 THEN Err(ERR_RECTANGLE, v)
        ELSE IF widthMatch = NoMatch \/ heightMatch = NoMatch THEN Err(ERR_RECTANGLE, v)
        ELSE [width |-> [value |-> parseFloat(heightMatch[1]), unit |-> heightMatch[2]],
              height |-> [value |-> parseFloat(widthMatch[1]), unit |-> widthMatch[2]]]

parseRectangleDimensions(v) ==
    LET parts == split(v, SPACE)
        widthMatch == IF Len(parts) = 2 THEN Match(parts[1]) ELSE NoMatch
        heightMatch == IF Len(parts) = 2 THEN Match(parts[2]) ELSE NoMatch
    IN  IF Len(parts) # 2 THEN Err(ERR_RECTANGLE, v)
        ELSE IF widthMatch = NoMatch \/ heightMatch = NoMatch THEN Err(ERR_RECTANGLE, v)
        ELSE [width |-> [value |-> parseFloat(widthMatch[1]), unit |-> widthMatch[2]],
              height |-> [value |-> parseFloat(heightMatch[1]), unit |-> heightMatch[2]]]

getShapeSize(size, shape) ==
    CASE shape = SHAPE_RECTANGLE ->
            IF ~includes(size, SPACE) THEN size \o <<SPACE>> \o size ELSE size
      [] shape \in {SHAPE_SQUARE, SHAPE_CIRCLE} ->
            IF includes(size, SPACE) THEN split(size, SPACE)[1] ELSE size
      [] OTHER -> size

-----------------------------------------------------------------------------
(* Template literals *)

\* `${p.value}${p.unit}`
LenText(p) == NumToString(p.value) \o p.unit

\* `calc(${a} + ${b})` and `calc(${a} - ${b})`
Calc(a, op, b) == T_calc \o a \o <<SPACE, op, SPACE>> \o b \o T_close

\* half of a parsed length: `${p.value / 2}${p.unit}`
HalfText(p) == NumToString(DecHalf(p.value)) \o p.unit

-----------------------------------------------------------------------------
(* calculateCircleCenter *)

ANCHOR_MIDDLE == "ANCHOR_MIDDLE"

ANCHOR_TOP_LEFT == "ANCHOR_TOP_LEFT"

ANCHOR_TOP_RIGHT == "ANCHOR_TOP_RIGHT"

ANCHOR_BOTTOM_LEFT == "ANCHOR_BOTTOM_LEFT"

ANCHOR_BOTTOM_RIGHT == "ANCHOR_BOTTOM_RIGHT"

\* a mutation: no default arm for Middle, an unknown anchor taken as top-left
calculateCircleCenter_nodefault(x, y, radius, unit, anchor) ==
    LET r == NumToString(radius) \o unit IN
    CASE anchor = ANCHOR_MIDDLE -> [centerX |-> x, centerY |-> y]
      [] anchor = ANCHOR_TOP_RIGHT -> [centerX |-> Calc(x, "-", r), centerY |-> Calc(y, "+", r)]
      [] anchor = ANCHOR_BOTTOM_LEFT -> [centerX |-> Calc(x, "+", r), centerY |-> Calc(y, "-", r)]
      [] anchor = ANCHOR_BOTTOM_RIGHT -> [centerX |-> Calc(x, "-", r), centerY |-> Calc(y, "-", r)]
      [] OTHER -> [centerX |-> Calc(x, "+", r), centerY |-> Calc(y, "+", r)]

\* a mutation: the top-right arm shifts x the wrong way
calculateCircleCenter_sign(x, y, radius, unit, anchor) ==
    LET r == NumToString(radius) \o unit IN
    CASE anchor = ANCHOR_TOP_LEFT -> [centerX |-> Calc(x, "+", r), centerY |-> Calc(y, "+", r)]
      [] anchor = ANCHOR_TOP_RIGHT -> [centerX |-> Calc(x, "+", r), centerY |-> Calc(y, "+", r)]
      [] anchor = ANCHOR_BOTTOM_LEFT -> [centerX |-> Calc(x, "+", r), centerY |-> Calc(y, "-", r)]
      [] anchor = ANCHOR_BOTTOM_RIGHT -> [centerX |-> Calc(x, "-", r), centerY |-> Calc(y, "-", r)]
      [] OTHER -> [centerX |-> x, centerY |-> y]

calculateCircleCenter(x, y, radius, unit, anchor) ==
    LET r == NumToString(radius) \o unit IN
    CASE anchor = ANCHOR_TOP_LEFT -> [centerX |-> Calc(x, "+", r), centerY |-> Calc(y, "+", r)]
      [] anchor = ANCHOR_TOP_RIGHT -> [centerX |-> Calc(x, "-", r), centerY |-> Calc(y, "+", r)]
      [] anchor = ANCHOR_BOTTOM_LEFT -> [centerX |-> Calc(x, "+", r), centerY |-> Calc(y, "-", r)]
      [] anchor = ANCHOR_BOTTOM_RIGHT -> [centerX |-> Calc(x, "-", r), centerY |-> Calc(y, "-", r)]
      [] OTHER -> [centerX |-> x, centerY |-> y]

-----------------------------------------------------------------------------
(* isClickInsideCircle and positionToPixels *)

RECURSIVE SqrtSearch(_, _, _)
\* the largest f in lo..hi with f * f <= n, given lo * lo <= n
SqrtSearch(n, lo, hi) ==
    IF lo >= hi THEN lo
    ELSE LET mid == (lo + hi + 1) \div 2 IN
         IF mid * mid <= n THEN SqrtSearch(n, mid, hi) ELSE SqrtSearch(n, lo, mid - 1)

\* floor(Math.sqrt(n)) of a natural number below 2^31
SqrtFloor(n) == SqrtSearch(n, 0, Min(n, 46340))

\* Math.sqrt(s) <= r for decimals s >= 0 and r: both are brought to integers
\* (s at an even exponent 2k, r at k); the root is <= r iff its floor is
\* below r, or equals r with nothing left over
SqrtLeq(s, r) ==
    LET k == Max((s.e + 1) \div 2, r.e)
        S == s.m * Pow10((2 * k) - s.e)
        R == r.m * Pow10(k - r.e)
        f == SqrtFloor(S)
    IN  f < R \/ (f = R /\ f * f = S)

\* Math.sqrt(s) < r, as above
SqrtLess(s, r) ==
    LET k == Max((s.e + 1) \div 2, r.e)
        S == s.m * Pow10((2 * k) - s.e)
        R == r.m * Pow10(k - r.e)
    IN  SqrtFloor(S) < R

\* Math.pow(a - b, 2)
SquareDiff(a, b) == DecMul(DecSub(a, b), DecSub(a, b))

\* a mutation: distance < radius
isClickInsideCircle_strict(clickX, clickY, centerX, centerY, radius) ==
    SqrtLess(DecAdd(SquareDiff(clickX, centerX), SquareDiff(clickY, centerY)), radius)

isClickInsideCircle(clickX, clickY, centerX, centerY, radius) ==
    SqrtLeq(DecAdd(SquareDiff(clickX, centerX), SquareDiff(clickY, centerY)), radius)

\* a mutation: the percentage is not divided by 100
positionToPixels_nodiv(v, unit, containerSize) ==
    IF unit = T_pct THEN DecMul(DecInt(containerSize), v) ELSE v

positionToPixels(v, unit, containerSize) ==
    IF unit = T_pct THEN DecDiv100(DecMul(DecInt(containerSize), v)) ELSE v

-----------------------------------------------------------------------------
(* getHoleBoundaries: one operator per arm of the two anchor switches *)

RectTopLeft(hp, d) ==
    [left |-> hp.x, top |-> hp.y,
     right |-> Calc(hp.x, "+", LenText(d.width)), bottom |-> Calc(hp.y, "+", LenText(d.height))]

RectTopRight(hp, d) ==
    [left |-> Calc(hp.x, "-", LenText(d.width)), top |-> hp.y,
     right |-> hp.x, bottom |-> Calc(hp.y, "+", LenText(d.height))]

RectBottomLeft(hp, d) ==
    [left |-> hp.x, top |-> Calc(hp.y, "-", LenText(d.height)),
     right |-> Calc(hp.x, "+", LenText(d.width)), bottom |-> hp.y]

RectBottomRight(hp, d) ==
    [left |-> Calc(hp.x, "-", LenText(d.width)), top |-> Calc(hp.y, "-", LenText(d.height)),
     right |-> hp.x, bottom |-> hp.y]

\* a mutation: the left edge is not halved
RectMiddle_left(hp, d) ==
    [left |-> Calc(hp.x, "-", LenText(d.width)), top |-> Calc(hp.y, "-", HalfText(d.height)),
     right |-> Calc(hp.x, "+", HalfText(d.width)), bottom |-> Calc(hp.y, "+", HalfText(d.height))]

RectMiddle(hp, d) ==
    [left |-> Calc(hp.x, "-", HalfText(d.width)), top |-> Calc(hp.y, "-", HalfText(d.height)),
     right |-> Calc(hp.x, "+", HalfText(d.width)), bottom |-> Calc(hp.y, "+", HalfText(d.height))]

\* the square/circle corner arms interpolate holePosition.size itself, not
\* the single size getShapeSize returned
SquareTopLeft(hp, sizeParsed) ==
    [left |-> hp.x, top |-> hp.y,
     right |-> Calc(hp.x, "+", hp.size), bottom |-> Calc(hp.y, "+", hp.size)]

SquareTopRight(hp, sizeParsed) ==
    [left |-> Calc(hp.x, "-", hp.size), top |-> hp.y,
     right |-> hp.x, bottom |-> Calc(hp.y, "+", hp.size)]

SquareBottomLeft(hp, sizeParsed) ==
    [left |-> hp.x, top |-> Calc(hp.y, "-", hp.size),
     right |-> Calc(hp.x, "+", hp.size), bottom |-> hp.y]

SquareBottomRight(hp, sizeParsed) ==
    [left |-> Calc(hp.x, "-", hp.size), top |-> Calc(hp.y, "-", hp.size),
     right |-> hp.x, bottom |-> hp.y]

SquareMiddle(hp, sizeParsed) ==
    [left |-> Calc(hp.x, "-", HalfText(sizeParsed)), top |-> Calc(hp.y, "-", HalfText(sizeParsed)),
     right |-> Calc(hp.x, "+", HalfText(sizeParsed)), bottom |-> Calc(hp.y, "+", HalfText(sizeParsed))]

\* the four edges as CSS text, or the error thrown
getHoleBoundaries(hp) ==
    IF hp.shape = SHAPE_RECTANGLE
    THEN LET rectangleSize == getShapeSize(hp.size, SHAPE_RECTANGLE)
             dimensions == parseRectangleDimensions(rectangleSize)
         IN  IF IsErr(dimensions) THEN dimensions
             ELSE CASE hp.anchor = ANCHOR_TOP_LEFT -> RectTopLeft(hp, dimensions)
                    [] hp.anchor = ANCHOR_TOP_RIGHT -> RectTopRight(hp, dimensions)
                    [] hp.anchor = ANCHOR_BOTTOM_LEFT -> RectBottomLeft(hp, dimensions)
                    [] hp.anchor = ANCHOR_BOTTOM_RIGHT -> RectBottomRight(hp, dimensions)
                    [] OTHER -> RectMiddle(hp, dimensions)
    ELSE LET singleSize == getShapeSize(hp.size, hp.shape)
             sizeParsed == parseValue(singleSize)
         IN  IF IsErr(sizeParsed) THEN sizeParsed
             ELSE CASE hp.anchor = ANCHOR_TOP_LEFT -> SquareTopLeft(hp, sizeParsed)
                    [] hp.anchor = ANCHOR_TOP_RIGHT -> SquareTopRight(hp, sizeParsed)
                    [] hp.anchor = ANCHOR_BOTTOM_LEFT -> SquareBottomLeft(hp, sizeParsed)
                    [] hp.anchor = ANCHOR_BOTTOM_RIGHT -> SquareBottomRight(hp, sizeParsed)
                    [] OTHER -> SquareMiddle(hp, sizeParsed)

\* the height given to the left and right strips
getRectangleHeight(hp) ==
    IF hp.shape = SHAPE_RECTANGLE
    THEN LET dimensions == split(hp.size, SPACE) IN
         IF Len(dimensions) = 2 THEN dimensions[2] ELSE hp.size
    ELSE IF includes(hp.size, SPACE) THEN split(hp.size, SPACE)[1] ELSE hp.size

-----------------------------------------------------------------------------
(* The style values as the layout engine resolves them.  A value is a      *)
(* length (an optional sign, then a number and px or %), or                *)
(* calc(<term> + <term>) / calc(<term> - <term>) whose terms are lengths   *)
(* or calc() themselves; anything else is an invalid value and gives no    *)
(* edge.  A percentage resolves against the extent of the property's axis. *)

Invalid == [ok |-> FALSE]

Px(d) == [ok |-> TRUE, px |-> d]

DecNeg(d) == [m |-> 0 - d.m, e |-> d.e]

CssLength(s, extent) ==
    LET signed == Len(s) > 0 /\ s[1] \in {"+", "-"}
        body == IF signed THEN SubSeq(s, 2, Len(s)) ELSE s
        p == parseValue(body)
        v == IF IsErr(p) THEN DecInt(0) ELSE positionToPixels(p.value, p.unit, extent)
    IN  IF IsErr(p) THEN Invalid
        ELSE IF signed /\ s[1] = "-" THEN Px(DecNeg(v)) ELSE Px(v)

RECURSIVE Depth(_, _)
\* how many '(' are open before position i of s
Depth(s, i) ==
    IF i <= 1 THEN 0
    ELSE Depth(s, i - 1) + (IF s[i - 1] = "(" THEN 1 ELSE IF s[i - 1] = ")" THEN 0 - 1 ELSE 0)

\* the positions of s holding ' + ' or ' - ' outside any parentheses
TopOperators(s) ==
    {i \in 1..(Len(s) - 2) : s[i] = SPACE /\ s[i + 1] \in {"+", "-"} /\ s[i + 2] = SPACE /\ Depth(s, i) = 0}

IsCalc(s) ==
    Len(s) > Len(T_calc) /\ SubSeq(s, 1, Len(T_calc)) = T_calc /\ s[Len(s)] = ")"

RECURSIVE CssResolve(_, _)
CssResolve(s, extent) ==
    IF IsCalc(s)
    THEN LET inner == SubSeq(s, Len(T_calc) + 1, Len(s) - 1)
             ops == TopOperators(inner)
         IN  IF Cardinality(ops) # 1 THEN Invalid
             ELSE LET i == CHOOSE j \in ops : TRUE
                      a == CssResolve(SubSeq(inner, 1, i - 1), extent)
                      b == CssResolve(SubSeq(inner, i + 3, Len(inner)), extent)
                  IN  IF ~a.ok \/ ~b.ok THEN Invalid
                      ELSE IF inner[i + 1] = "+" THEN Px(DecAdd(a.px, b.px))
                      ELSE Px(DecSub(a.px, b.px))
    ELSE CssLength(s, extent)

-----------------------------------------------------------------------------
(* The component body and the click handlers *)

T_100pct == <<"1", "0", "0", "%">>

\* what MaskLayer(props) returns: the circle mask, the four strips, or the
\* error thrown on the way (getHoleBoundaries runs for every shape)
MaskLayer(hp) ==
    LET holeBounds == getHoleBoundaries(hp)
        circleSize == getShapeSize(hp.size, SHAPE_CIRCLE)
        sizeParsed == parseValue(circleSize)
        radius == DecHalf(sizeParsed.value)
        center == calculateCircleCenter(hp.x, hp.y, radius, sizeParsed.unit, hp.anchor)
    IN  IF IsErr(holeBounds) THEN [kind |-> "error", error |-> holeBounds.error, text |-> holeBounds.text]
        ELSE IF hp.shape = SHAPE_CIRCLE
        THEN IF IsErr(sizeParsed) THEN [kind |-> "error", error |-> sizeParsed.error, text |-> sizeParsed.text]
             ELSE [kind |-> "circle",
                   radius |-> NumToString(radius) \o sizeParsed.unit,
                   centerX |-> center.centerX,
                   centerY |-> center.centerY]
        ELSE [kind |-> "box",
              holeBounds |-> holeBounds,
              topStrip |-> [height |-> holeBounds.top],
              bottomStrip |-> [height |-> Calc(T_100pct, "-", holeBounds.bottom)],
              leftStrip |-> [top |-> holeBounds.top, width |-> holeBounds.left,
                             height |-> getRectangleHeight(hp)],
              rightStrip |-> [top |-> holeBounds.top, width |-> Calc(T_100pct, "-", holeBounds.right),
                              height |-> getRectangleHeight(hp)]]

\* a mutation: the radius resolved against the container's width
handleCircleClick_width(hp, r, clickX, clickY) ==
    LET circleSize == getShapeSize(hp.size, SHAPE_CIRCLE)
        sizeParsed == parseValue(circleSize)
        radius == DecHalf(sizeParsed.value)
        center == calculateCircleCenter(hp.x, hp.y, radius, sizeParsed.unit, hp.anchor)
        centerXValue == parseValue(center.centerX)
        centerYValue == parseValue(center.centerY)
        centerXPx == positionToPixels(centerXValue.value, centerXValue.unit, r.width)
        centerYPx == positionToPixels(centerYValue.value, centerYValue.unit, r.height)
        radiusPx == positionToPixels(radius, sizeParsed.unit, r.width)
        thrown == IF IsErr(sizeParsed) THEN sizeParsed
                  ELSE IF IsErr(centerXValue) THEN centerXValue
                  ELSE centerYValue
        inside == isClickInsideCircle(DecInt(clickX), DecInt(clickY), centerXPx, centerYPx, radiusPx)
    IN  IF IsErr(thrown)
        THEN [kind |-> "circle", clickX |-> clickX, clickY |-> clickY, thrown |-> TRUE,
              error |-> thrown.error, text |-> thrown.text,
              stopped |-> FALSE, dispatched |-> FALSE, overlay |-> FALSE]
        ELSE [kind |-> "circle", clickX |-> clickX, clickY |-> clickY, thrown |-> FALSE,
              centerXPx |-> centerXPx, centerYPx |-> centerYPx, radiusPx |-> radiusPx,
              inside |-> inside,
              stopped |-> TRUE, dispatched |-> inside, overlay |-> ~inside]

\* what handleCircleClick does with a click at (clickX, clickY) of the
\* container r: the error it throws, or the branch it takes
handleCircleClick(hp, r, clickX, clickY) ==
    LET circleSize == getShapeSize(hp.size, SHAPE_CIRCLE)
        sizeParsed == parseValue(circleSize)
        radius == DecHalf(sizeParsed.value)
        center == calculateCircleCenter(hp.x, hp.y, radius, sizeParsed.unit, hp.anchor)
        centerXValue == parseValue(center.centerX)
        centerYValue == parseValue(center.centerY)
        centerXPx == positionToPixels(centerXValue.value, centerXValue.unit, r.width)
        centerYPx == positionToPixels(centerYValue.value, centerYValue.unit, r.height)
        radiusPx == positionToPixels(radius, sizeParsed.unit, Min(r.width, r.height))
        thrown == IF IsErr(sizeParsed) THEN sizeParsed
                  ELSE IF IsErr(centerXValue) THEN centerXValue
                  ELSE centerYValue
        inside == isClickInsideCircle(DecInt(clickX), DecInt(clickY), centerXPx, centerYPx, radiusPx)
    IN  IF IsErr(thrown)
        THEN [kind |-> "circle", clickX |-> clickX, clickY |-> clickY, thrown |-> TRUE,
              error |-> thrown.error, text |-> thrown.text,
              stopped |-> FALSE, dispatched |-> FALSE, overlay |-> FALSE]
        ELSE [kind |-> "circle", clickX |-> clickX, clickY |-> clickY, thrown |-> FALSE,
              centerXPx |-> centerXPx, centerYPx |-> centerYPx, radiusPx |-> radiusPx,
              inside |-> inside,
              stopped |-> TRUE, dispatched |-> inside, overlay |-> ~inside]

\* handleClick on one of the four strips
handleClick(clickX, clickY) ==
    [kind |-> "strip", clickX |-> clickX, clickY |-> clickY, thrown |-> FALSE,
     stopped |-> TRUE, dispatched |-> FALSE, overlay |-> TRUE]

-----------------------------------------------------------------------------
(* The parser specification: parseValue applied to every short text *)

Alphabet == {"0", "7", ".", "p", "x", "%", " ", "-", "P"}

RECURSIVE TextsOfLen(_)
TextsOfLen(n) ==
    IF n = 0 THEN {<<>>}
    ELSE {Append(s, c) : s \in TextsOfLen(n - 1), c \in Alphabet}

Texts == UNION {TextsOfLen(n) : n \in 0..MaxTextLen}

NoPosition == [x |-> <<>>, y |-> <<>>, size |-> <<>>, anchor |-> "ANCHOR_MIDDLE", shape |-> "SHAPE_RECTANGLE"]

NoRect == [width |-> 0, height |-> 0]

NoView == [kind |-> "none"]

NoClick == [kind |-> "none"]

NoResult == [kind |-> "none"]

InitParse ==
    /\ value \in Texts
    /\ parsed = NoResult
    /\ pc = "input"
    /\ holePosition = NoPosition
    /\ rect = NoRect
    /\ view = NoView
    /\ click = NoClick
    /\ overlayClicks = 0
    /\ unmaskedClicks = 0
    /\ normalized = NoResult

Parse ==
    /\ pc = "input"
    /\ parsed' = parseValue(value)
    /\ pc' = "done"
    /\ UNCHANGED <<holePosition, rect, view, click, overlayClicks, unmaskedClicks, value, normalized>>

NextParse == Parse

SpecParse == InitParse /\ [][NextParse]_vars

-----------------------------------------------------------------------------
(* The size specification: the normalisation applied to size texts built   *)
(* from a few tokens and separators                                        *)

SizeTokens == {<<"1", "0", "0", "p", "x">>, <<"5", "0", "%">>, <<"2", ".", "5", "p", "x">>, <<"5", "0">>}

Separators == {<<" ">>, <<" ", " ">>, <<"\t">>}

RECURSIVE JoinedTexts(_)
\* the texts of n tokens, n >= 1, each two joined by a separator
JoinedTexts(n) ==
    IF n = 1 THEN SizeTokens
    ELSE {s \o sep \o t : s \in JoinedTexts(n - 1), sep \in Separators, t \in SizeTokens}

SizeInputs == {<<>>} \cup UNION {JoinedTexts(n) : n \in 1..MaxTokens}

Shapes == {SHAPE_RECTANGLE, SHAPE_SQUARE, SHAPE_CIRCLE}

InitSize ==
    /\ holePosition \in {[NoPosition EXCEPT !.size = s, !.shape = sh] : s \in SizeInputs, sh \in Shapes}
    /\ normalized = NoResult
    /\ pc = "input"
    /\ rect = NoRect
    /\ view = NoView
    /\ click = NoClick
    /\ overlayClicks = 0
    /\ unmaskedClicks = 0
    /\ value = <<>>
    /\ parsed = NoResult

\* the first two statements of each shape branch of getHoleBoundaries
Normalize ==
    /\ pc = "input"
    /\ normalized' =
          IF holePosition.shape = SHAPE_RECTANGLE
          THEN parseRectangleDimensions(getShapeSize(holePosition.size, SHAPE_RECTANGLE))
          ELSE parseValue(getShapeSize(holePosition.size, holePosition.shape))
    /\ pc' = "done"
    /\ UNCHANGED <<holePosition, rect, view, click, overlayClicks, unmaskedClicks, value, parsed>>

NextSize == Normalize

SpecSize == InitSize /\ [][NextSize]_vars

-----------------------------------------------------------------------------
(* The component: mounted with some props in some container, rendered,     *)
(* then clicked                                                            *)

P_0px == <<"0", "p", "x">>

P_50pct == <<"5", "0", "%">>

P_60px == <<"6", "0", "p", "x">>

P_50 == <<"5", "0">>

S_100px == <<"1", "0", "0", "p", "x">>

S_7px == <<"7", "p", "x">>

S_200px_100px == <<"2", "0", "0", "p", "x", " ", "1", "0", "0", "p", "x">>

S_200px_400px == <<"2", "0", "0", "p", "x", " ", "4", "0", "0", "p", "x">>

S_20pct_10px == <<"2", "0", "%", " ", "1", "0", "p", "x">>

S_100px_50 == <<"1", "0", "0", "p", "x", " ", "5", "0">>

S_3tokens == <<"1", "0", "0", "p", "x", " ", "5", "0", "p", "x", " ", "2", "0", "p", "x">>

PositionTexts == {P_0px, P_50pct, P_60px, P_50}

SizeTexts == {S_100px, S_7px, P_50pct, P_50, S_200px_100px, S_200px_400px, S_20pct_10px, S_100px_50, S_3tokens}

KnownAnchors == {ANCHOR_MIDDLE, ANCHOR_TOP_LEFT, ANCHOR_TOP_RIGHT, ANCHOR_BOTTOM_LEFT, ANCHOR_BOTTOM_RIGHT}

\* the anchor type is not checked at run time: one value outside it
Anchors == KnownAnchors \cup {"ANCHOR_OTHER"}

Containers == {[width |-> 1000, height |-> 800], [width |-> 100, height |-> 200]}

ClickPoints == {<<0, 0>>, <<30, 40>>, <<31, 40>>, <<50, 50>>, <<530, 440>>, <<531, 440>>}

Init ==
    /\ holePosition \in [x : PositionTexts, y : PositionTexts, size : SizeTexts, anchor : Anchors, shape : Shapes]
    /\ rect \in Containers
    /\ pc = "mount"
    /\ view = NoView
    /\ click = NoClick
    /\ overlayClicks = 0
    /\ unmaskedClicks = 0
    /\ value = <<>>
    /\ parsed = NoResult
    /\ normalized = NoResult

Render ==
    /\ pc = "mount"
    /\ view' = MaskLayer(holePosition)
    /\ pc' = IF view'.kind = "error" THEN "failed" ELSE "rendered"
    /\ UNCHANGED <<holePosition, rect, click, overlayClicks, unmaskedClicks, value, parsed, normalized>>

\* App: onOverlayClick is handleOverlayClick; the parent's onClick is
\* handleUnmaskedClick, which runs when a click reaches the parent: the
\* handler dispatched one to it, or never stopped the original
Handled(c) ==
    /\ click' = c
    /\ overlayClicks' = overlayClicks + (IF c.overlay THEN 1 ELSE 0)
    /\ unmaskedClicks' = unmaskedClicks + (IF c.dispatched \/ ~c.stopped THEN 1 ELSE 0)
    /\ UNCHANGED <<holePosition, rect, pc, view, value, parsed, normalized>>

ClickCircle ==
    /\ pc = "rendered"
    /\ view.kind = "circle"
    /\ overlayClicks + unmaskedClicks < MaxClicks
    /\ \E p \in ClickPoints :
          /\ p[1] <= rect.width
          /\ p[2] <= rect.height
          /\ Handled(handleCircleClick(holePosition, rect, p[1], p[2]))

ClickStrip ==
    /\ pc = "rendered"
    /\ view.kind = "box"
    /\ overlayClicks + unmaskedClicks < MaxClicks
    /\ \E p \in ClickPoints :
          /\ p[1] <= rect.width
          /\ p[2] <= rect.height
          /\ Handled(handleClick(p[1], p[2]))

Next == Render \/ ClickCircle \/ ClickStrip

Spec == Init /\ [][Next]_vars

-----------------------------------------------------------------------------
(* What the claims speak of, stated apart from the operators above *)

IsDigits(s) == Len(s) > 0 /\ \A i \in 1..Len(s) : IsDigit(s[i])

\* digits, optionally followed by '.' and digits
IsNumber(s) ==
    \/ IsDigits(s)
    \/ \E d \in 2..(Len(s) - 1) :
          s[d] = "." /\ IsDigits(SubSeq(s, 1, d - 1)) /\ IsDigits(SubSeq(s, d + 1, Len(s)))

\* the length grammar: a number, then px or %
WellFormed(s) ==
    \E u \in {T_px, T_pct} :
        /\ Len(s) > Len(u)
        /\ SubSeq(s, Len(s) - Len(u) + 1, Len(s)) = u
        /\ IsNumber(SubSeq(s, 1, Len(s) - Len(u)))

UnitOf(s) == IF s[Len(s)] = "%" THEN T_pct ELSE T_px

NumberOf(s) == SubSeq(s, 1, Len(s) - Len(UnitOf(s)))

RECURSIVE StripLeadingZeros(_)
StripLeadingZeros(s) ==
    IF Len(s) > 1 /\ s[1] = "0" THEN StripLeadingZeros(Tail(s)) ELSE s

RECURSIVE StripTrailingZeros(_)
StripTrailingZeros(s) ==
    IF Len(s) > 0 /\ s[Len(s)] = "0" THEN StripTrailingZeros(SubSeq(s, 1, Len(s) - 1)) ELSE s

\* the shortest decimal numeral of the number a numeral denotes
Canonical(num) ==
    LET dots == {i \in 1..Len(num) : num[i] = "."}
        dot == IF dots = {} THEN Len(num) + 1 ELSE CHOOSE i \in dots : TRUE
        int == StripLeadingZeros(SubSeq(num, 1, dot - 1))
        frac == StripTrailingZeros(SubSeq(num, dot + 1, Len(num)))
    IN  IF frac = <<>> THEN int ELSE int \o <<".">> \o frac

\* C9: parseValue succeeds exactly on the texts of the length grammar, with
\* the magnitude and the unit the text states, and otherwise throws the
\* "Invalid position value" error carrying the text
C9_ParserGrammar ==
    pc = "done" =>
        IF WellFormed(value)
        THEN /\ ~IsErr(parsed)
             /\ parsed.unit = UnitOf(value)
             /\ NumToString(parsed.value) = Canonical(NumberOf(value))
        ELSE parsed = Err(ERR_POSITION, value)

\* a text with a fraction and a leading zero has been parsed
C9_Witness ==
    /\ pc = "done"
    /\ value = <<"0", ".", "7", "%">>
    /\ parsed = [value |-> [m |-> 7, e |-> 1], unit |-> T_pct]

-----------------------------------------------------------------------------
(* Rectangle size arity *)

Whitespace == {" ", "\t"}

RECURSIVE WsTokensFrom(_, _, _)
\* the maximal runs of non-whitespace characters of s from position i on
WsTokensFrom(s, i, cur) ==
    IF i > Len(s) THEN (IF cur = <<>> THEN <<>> ELSE <<cur>>)
    ELSE IF s[i] \in Whitespace
         THEN (IF cur = <<>> THEN <<>> ELSE <<cur>>) \o WsTokensFrom(s, i + 1, <<>>)
         ELSE WsTokensFrom(s, i + 1, Append(cur, s[i]))

\* s split on whitespace
WsTokens(s) == WsTokensFrom(s, 1, <<>>)

\* the positions of the space characters of s
SpacesOf(s) == {i \in 1..Len(s) : s[i] = SPACE}

\* the length a well-formed text denotes
LengthOf(t) == [value |-> parseFloat(NumberOf(t)), unit |-> UnitOf(t)]

\* the result for the pair of tokens (a, b): the two lengths in that order,
\* or a failure when one of them is not a length
IsPairOf(result, a, b) ==
    IF WellFormed(a) /\ WellFormed(b)
    THEN result = [width |-> LengthOf(a), height |-> LengthOf(b)]
    ELSE IsErr(result)

\* C8 as stated: the rectangle size text is split on whitespace; one token
\* is duplicated, two tokens are (width, height), any other count fails
\* with the arity error
C8_WhitespaceArity ==
    (pc = "done" /\ holePosition.shape = SHAPE_RECTANGLE) =>
        LET tokens == WsTokens(holePosition.size) IN
        CASE Len(tokens) = 1 -> IsPairOf(normalized, tokens[1], tokens[1])
          [] Len(tokens) = 2 -> IsPairOf(normalized, tokens[1], tokens[2])
          [] OTHER -> IsErr(normalized) /\ normalized.error = ERR_RECTANGLE

\* C8 as amended: the rectangle size text is split at every single space
\* character; a text without a space is one token, duplicated to (width,
\* height); a text with one space is two tokens, (width, height) in that
\* order; a text with more spaces has three or more tokens and fails with
\* the "Invalid rectangle dimensions" error
C8_SpaceArity ==
    (pc = "done" /\ holePosition.shape = SHAPE_RECTANGLE) =>
        LET size == holePosition.size
            spaces == SpacesOf(size)
            i == CHOOSE j \in spaces : TRUE
        IN  CASE Cardinality(spaces) = 0 -> IsPairOf(normalized, size, size)
              [] Cardinality(spaces) = 1 ->
                    IsPairOf(normalized, SubSeq(size, 1, i - 1), SubSeq(size, i + 1, Len(size)))
              [] OTHER -> IsErr(normalized) /\ normalized.error = ERR_RECTANGLE

\* two tokens with different units have become (width, height)
C8_Witness ==
    /\ pc = "done"
    /\ holePosition.shape = SHAPE_RECTANGLE
    /\ holePosition.size = <<"1", "0", "0", "p", "x", " ", "5", "0", "%">>
    /\ normalized = [width |-> [value |-> DecInt(100), unit |-> T_px],
                     height |-> [value |-> DecInt(50), unit |-> T_pct]]

-----------------------------------------------------------------------------
(* The geometry the claims state, in pixels *)

BoxShapes == {SHAPE_RECTANGLE, SHAPE_SQUARE}

CornerAnchors == {ANCHOR_TOP_LEFT, ANCHOR_TOP_RIGHT, ANCHOR_BOTTOM_LEFT, ANCHOR_BOTTOM_RIGHT}

Rendered == pc \in {"rendered", "failed"}

\* the tokens of the size text
TokensOf(hp) == split(hp.size, SPACE)

WellFormedPosition(hp) == WellFormed(hp.x) /\ WellFormed(hp.y)

\* one or two tokens, each a length
WellFormedSize(hp) ==
    /\ Len(TokensOf(hp)) \in {1, 2}
    /\ \A i \in 1..Len(TokensOf(hp)) : WellFormed(TokensOf(hp)[i])

\* the normalized size: (width, height) of a rectangle, the extent twice otherwise
NormalWidth(hp) == LengthOf(TokensOf(hp)[1])

NormalHeight(hp) ==
    IF hp.shape = SHAPE_RECTANGLE /\ Len(TokensOf(hp)) = 2
    THEN LengthOf(TokensOf(hp)[2])
    ELSE LengthOf(TokensOf(hp)[1])

\* toPixels: a length against the extent of its axis
Pixels(l, extent) ==
    IF l.unit = T_pct THEN DecDiv100(DecMul(DecInt(extent), l.value)) ELSE l.value

Twice(d) == DecAdd(d, d)

\* the reference point and the normalized size of the hole, in pixels
RefX == Pixels(LengthOf(holePosition.x), rect.width)

RefY == Pixels(LengthOf(holePosition.y), rect.height)

WidthPx == Pixels(NormalWidth(holePosition), rect.width)

HeightPx == Pixels(NormalHeight(holePosition), rect.height)

\* the four edges the component computed, resolved in the container
LeftPx == CssResolve(view.holeBounds.left, rect.width)

RightPx == CssResolve(view.holeBounds.right, rect.width)

TopPx == CssResolve(view.holeBounds.top, rect.height)

BottomPx == CssResolve(view.holeBounds.bottom, rect.height)

EdgesResolve == LeftPx.ok /\ RightPx.ok /\ TopPx.ok /\ BottomPx.ok

\* the anchor table: the edges of a box of size (w, h) at (px, py)
TableLeft(anchor, px, w) ==
    CASE anchor \in {ANCHOR_TOP_LEFT, ANCHOR_BOTTOM_LEFT} -> px
      [] anchor \in {ANCHOR_TOP_RIGHT, ANCHOR_BOTTOM_RIGHT} -> DecSub(px, w)
      [] OTHER -> DecSub(px, DecHalf(w))

TableRight(anchor, px, w) ==
    CASE anchor \in {ANCHOR_TOP_LEFT, ANCHOR_BOTTOM_LEFT} -> DecAdd(px, w)
      [] anchor \in {ANCHOR_TOP_RIGHT, ANCHOR_BOTTOM_RIGHT} -> px
      [] OTHER -> DecAdd(px, DecHalf(w))

TableTop(anchor, py, h) ==
    CASE anchor \in {ANCHOR_TOP_LEFT, ANCHOR_TOP_RIGHT} -> py
      [] anchor \in {ANCHOR_BOTTOM_LEFT, ANCHOR_BOTTOM_RIGHT} -> DecSub(py, h)
      [] OTHER -> DecSub(py, DecHalf(h))

TableBottom(anchor, py, h) ==
    CASE anchor \in {ANCHOR_TOP_LEFT, ANCHOR_TOP_RIGHT} -> DecAdd(py, h)
      [] anchor \in {ANCHOR_BOTTOM_LEFT, ANCHOR_BOTTOM_RIGHT} -> py
      [] OTHER -> DecAdd(py, DecHalf(h))

\* the circle's shift of the reference point, in radii, per axis
ShiftX(anchor) ==
    CASE anchor \in {ANCHOR_TOP_LEFT, ANCHOR_BOTTOM_LEFT} -> 1
      [] anchor \in {ANCHOR_TOP_RIGHT, ANCHOR_BOTTOM_RIGHT} -> 0 - 1
      [] OTHER -> 0

ShiftY(anchor) ==
    CASE anchor \in {ANCHOR_TOP_LEFT, ANCHOR_TOP_RIGHT} -> 1
      [] anchor \in {ANCHOR_BOTTOM_LEFT, ANCHOR_BOTTOM_RIGHT} -> 0 - 1
      [] OTHER -> 0

\* p shifted by n radii r
Shifted(p, n, r) == DecAdd(p, DecMul(DecInt(n), r))

\* the radius of the circle: half the extent, in the extent's unit
RadiusOf(hp) == [value |-> DecHalf(NormalWidth(hp).value), unit |-> NormalWidth(hp).unit]

\* the squared distance from the last click to (cx, cy)
Distance2(cx, cy) ==
    DecAdd(SquareDiff(DecInt(click.clickX), cx), SquareDiff(DecInt(click.clickY), cy))

-----------------------------------------------------------------------------
(* The claims *)

\* C1: for a circle anchored at a corner, with a well-formed position and
\* size, the click handler completes without error, takes the reference
\* point shifted by one radius per axis as the center, and finds the click
\* inside iff it lies within the radius
C1_CornerCircleHitTest ==
    (/\ click.kind = "circle"
     /\ holePosition.anchor \in CornerAnchors
     /\ WellFormedPosition(holePosition)
     /\ WellFormedSize(holePosition)) =>
        LET r == Pixels(RadiusOf(holePosition), Min(rect.width, rect.height))
            cx == Shifted(RefX, ShiftX(holePosition.anchor), r)
            cy == Shifted(RefY, ShiftY(holePosition.anchor), r)
        IN  /\ ~click.thrown
            /\ click.centerXPx = cx
            /\ click.centerYPx = cy
            /\ click.radiusPx = r
            /\ click.inside <=> DecLeq(Distance2(cx, cy), DecMul(r, r))

\* C2: for a rectangle or a square with a well-formed position and size,
\* whatever the anchor and the container, the resolved edges are w apart
\* horizontally and h apart vertically, (w, h) being the normalized size
C2_AnchorSymmetry ==
    (/\ Rendered
     /\ holePosition.shape \in BoxShapes
     /\ WellFormedPosition(holePosition)
     /\ WellFormedSize(holePosition)) =>
        /\ view.kind = "box"
        /\ EdgesResolve
        /\ DecSub(RightPx.px, LeftPx.px) = WidthPx
        /\ DecSub(BottomPx.px, TopPx.px) = HeightPx

\* C3: for a square or a circle, a size text of two tokens "a b" gives what
\* the single token "a" gives, and raises no error
C3_Truncation ==
    (/\ Rendered
     /\ holePosition.shape \in {SHAPE_SQUARE, SHAPE_CIRCLE}
     /\ WellFormedPosition(holePosition)
     /\ Len(TokensOf(holePosition)) = 2
     /\ WellFormed(TokensOf(holePosition)[1])) =>
        /\ view.kind # "error"
        /\ view = MaskLayer([holePosition EXCEPT !.size = TokensOf(holePosition)[1]])

\* C4: for a rectangle or a square the resolved edges are those of the
\* anchor table, the named corner (or the center) lying on the reference
C4_AnchorTable ==
    (/\ Rendered
     /\ holePosition.shape \in BoxShapes
     /\ holePosition.anchor \in KnownAnchors
     /\ WellFormedPosition(holePosition)
     /\ WellFormedSize(holePosition)) =>
        /\ view.kind = "box"
        /\ EdgesResolve
        /\ LeftPx.px = TableLeft(holePosition.anchor, RefX, WidthPx)
        /\ RightPx.px = TableRight(holePosition.anchor, RefX, WidthPx)
        /\ TopPx.px = TableTop(holePosition.anchor, RefY, HeightPx)
        /\ BottomPx.px = TableBottom(holePosition.anchor, RefY, HeightPx)

\* C5: with anchor Middle the reference point is the center of the hole:
\* the resolved edges of a box average to it on each axis, and a circle's
\* center is the reference position itself
C5_MiddleCentering ==
    (/\ Rendered
     /\ holePosition.anchor = ANCHOR_MIDDLE
     /\ WellFormedPosition(holePosition)
     /\ WellFormedSize(holePosition)) =>
        IF holePosition.shape \in BoxShapes
        THEN /\ view.kind = "box"
             /\ EdgesResolve
             /\ DecAdd(LeftPx.px, RightPx.px) = Twice(RefX)
             /\ DecAdd(TopPx.px, BottomPx.px) = Twice(RefY)
        ELSE /\ view.kind = "circle"
             /\ view.centerX = holePosition.x
             /\ view.centerY = holePosition.y
             /\ CssResolve(view.centerX, rect.width) = Px(RefX)
             /\ CssResolve(view.centerY, rect.height) = Px(RefY)

\* the rectangle 200px by 100px in the middle of a 1000 by 800 container
\* has the edges 400, 350, 600 and 450
C5_Witness ==
    /\ pc = "rendered"
    /\ holePosition = [x |-> P_50pct, y |-> P_50pct, size |-> S_200px_100px,
                       anchor |-> ANCHOR_MIDDLE, shape |-> SHAPE_RECTANGLE]
    /\ rect = [width |-> 1000, height |-> 800]
    /\ LeftPx = Px(DecInt(400))
    /\ TopPx = Px(DecInt(350))
    /\ RightPx = Px(DecInt(600))
    /\ BottomPx = Px(DecInt(450))

\* C6: the hit-test finds a click inside iff its distance to the center is
\* at most the radius: on the circle is inside, beyond it is outside
C6_HitTestInclusive ==
    (click.kind = "circle" /\ ~click.thrown) =>
        (click.inside <=>
            DecLeq(Distance2(click.centerXPx, click.centerYPx), DecMul(click.radiusPx, click.radiusPx)))

\* a click off both axes at exactly one radius from the center is inside
C6_Witness ==
    /\ click.kind = "circle"
    /\ ~click.thrown
    /\ click.inside
    /\ click.radiusPx.m > 0
    /\ DecInt(click.clickX) # click.centerXPx
    /\ DecInt(click.clickY) # click.centerYPx
    /\ Distance2(click.centerXPx, click.centerYPx) = DecMul(click.radiusPx, click.radiusPx)

\* C7: when the position x, the position y or a token of the size is not a
\* length, computing the boundary fails, whatever the shape and the anchor
C7_MalformedPropagation ==
    (/\ Rendered
     /\ \/ ~WellFormed(holePosition.x)
        \/ ~WellFormed(holePosition.y)
        \/ \E i \in 1..Len(TokensOf(holePosition)) : ~WellFormed(TokensOf(holePosition)[i])) =>
        view.kind = "error"

\* C10: a circle's radius is half the extent in the extent's unit, and its
\* center is the reference point shifted by one radius per axis with the
\* signs of the anchor (none for Middle)
C10_CircleBoundary ==
    (/\ Rendered
     /\ holePosition.shape = SHAPE_CIRCLE
     /\ holePosition.anchor \in KnownAnchors
     /\ WellFormedPosition(holePosition)
     /\ WellFormed(TokensOf(holePosition)[1])) =>
        LET radius == RadiusOf(holePosition) IN
        /\ view.kind = "circle"
        /\ parseValue(view.radius) = radius
        /\ CssResolve(view.centerX, rect.width) =
              Px(Shifted(RefX, ShiftX(holePosition.anchor), Pixels(radius, rect.width)))
        /\ CssResolve(view.centerY, rect.height) =
              Px(Shifted(RefY, ShiftY(holePosition.anchor), Pixels(radius, rect.height)))

\* a circle of 7px anchored top-right at (60px, 50%): radius 3.5px, center
\* 3.5px to the left of and below the reference
C10_Witness ==
    /\ pc = "rendered"
    /\ holePosition = [x |-> P_60px, y |-> P_50pct, size |-> S_7px,
                       anchor |-> ANCHOR_TOP_RIGHT, shape |-> SHAPE_CIRCLE]
    /\ rect = [width |-> 1000, height |-> 800]
    /\ view.radius = <<"3", ".", "5", "p", "x">>
    /\ CssResolve(view.centerX, rect.width) = Px([m |-> 565, e |-> 1])
    /\ CssResolve(view.centerY, rect.height) = Px([m |-> 4035, e |-> 1])

\* the props with the anchor replaced by Middle
AsMiddle(hp) == [hp EXCEPT !.anchor = ANCHOR_MIDDLE]

\* C11: an anchor tag outside the five known values gives, for every shape,
\* what anchor Middle gives: the same edges or the same circle (and the
\* same answer to a click on it), and an error only where Middle has one
C11_AnchorFallback ==
    (Rendered /\ holePosition.anchor \notin KnownAnchors) =>
        /\ view = MaskLayer(AsMiddle(holePosition))
        /\ click.kind = "circle" =>
              click = handleCircleClick(AsMiddle(holePosition), rect, click.clickX, click.clickY)

\* a circle with an unknown anchor has been rendered around its reference
\* position and a click on its rim found inside
C11_Witness ==
    /\ pc = "rendered"
    /\ holePosition = [x |-> P_0px, y |-> P_0px, size |-> S_100px,
                       anchor |-> "ANCHOR_OTHER", shape |-> SHAPE_CIRCLE]
    /\ view.kind = "circle"
    /\ view.centerX = P_0px
    /\ view.centerY = P_0px
    /\ click.kind = "circle"
    /\ ~click.thrown
    /\ click.clickX = 30
    /\ click.clickY = 40
    /\ click.inside

\* px is what toPixels must give for the length l against extent: the
\* magnitude itself for px, and extent * magnitude / 100 for %
IsPixelsOf(px, l, extent) ==
    IF l.unit = T_px THEN px = l.value
    ELSE DecMul(px, DecInt(100)) = DecMul(DecInt(extent), l.value)

\* C12: in the hit-test an absolute length resolves to its magnitude,
\* whatever the container, and a percentage to extent * magnitude / 100;
\* x is resolved against the container's width and y against its height
C12_PixelResolution ==
    (click.kind = "circle" /\ ~click.thrown) =>
        /\ IsPixelsOf(click.centerXPx, LengthOf(holePosition.x), rect.width)
        /\ IsPixelsOf(click.centerYPx, LengthOf(holePosition.y), rect.height)
        /\ RadiusOf(holePosition).unit = T_px => click.radiusPx = RadiusOf(holePosition).value

\* a click on a circle at (60px, 50%) of a 100 by 200 container: the center
\* is at 60 (not a share of the width) and at 100 (half the height)
C12_Witness ==
    /\ click.kind = "circle"
    /\ ~click.thrown
    /\ holePosition.x = P_60px
    /\ holePosition.y = P_50pct
    /\ rect = [width |-> 100, height |-> 200]
    /\ click.centerXPx = DecInt(60)
    /\ click.centerYPx = DecInt(100)

\* C13: every click the mask layer handles has exactly one outcome: inside
\* the circular hole it goes on to the parent and onOverlayClick is not
\* invoked; outside the circle, or on a strip of a box mask, onOverlayClick
\* is invoked and the click does not reach the parent
C13_ExclusiveRouting ==
    (click.kind # "none" /\ WellFormedPosition(holePosition) /\ WellFormedSize(holePosition)) =>
        /\ ~click.thrown
        /\ click.stopped
        /\ click.dispatched # click.overlay
        /\ click.kind = "circle" => (click.dispatched <=> click.inside)
        /\ click.kind = "strip" => click.overlay

\* the vertical extents of the four strips, resolved in the container
TopStripHeight == CssResolve(view.topStrip.height, rect.height)

BottomStripHeight == CssResolve(view.bottomStrip.height, rect.height)

LeftStripTop == CssResolve(view.leftStrip.top, rect.height)

LeftStripHeight == CssResolve(view.leftStrip.height, rect.height)

RightStripTop == CssResolve(view.rightStrip.top, rect.height)

RightStripHeight == CssResolve(view.rightStrip.height, rect.height)

StripsResolve ==
    /\ TopStripHeight.ok /\ BottomStripHeight.ok
    /\ LeftStripTop.ok /\ LeftStripHeight.ok
    /\ RightStripTop.ok /\ RightStripHeight.ok

\* C14: for a rectangle or a square, whatever the anchor and for one or two
\* size tokens, the top strip spans 0 to top, the bottom strip spans bottom
\* to the container's height, and the side strips start at top with height
\* bottom - top, the normalized height of the hole; so the three heights
\* add up to the container's height
C14_StripsSurround ==
    (/\ Rendered
     /\ holePosition.shape \in BoxShapes
     /\ WellFormedPosition(holePosition)
     /\ WellFormedSize(holePosition)) =>
        /\ view.kind = "box"
        /\ TopPx.ok /\ BottomPx.ok
        /\ StripsResolve
        /\ TopStripHeight.px = TopPx.px
        /\ BottomStripHeight.px = DecSub(DecInt(rect.height), BottomPx.px)
        /\ LeftStripTop.px = TopPx.px
        /\ RightStripTop.px = TopPx.px
        /\ LeftStripHeight.px = DecSub(BottomPx.px, TopPx.px)
        /\ RightStripHeight.px = DecSub(BottomPx.px, TopPx.px)
        /\ LeftStripHeight.px = HeightPx
        /\ DecAdd(DecAdd(TopStripHeight.px, LeftStripHeight.px), BottomStripHeight.px) = DecInt(rect.height)

\* the container r with its larger dimension grown by d
Grown(r, d) ==
    IF r.width >= r.height THEN [r EXCEPT !.width = r.width + d]
    ELSE [r EXCEPT !.height = r.height + d]

\* the hit-test of the last click in the container r, and the same with the
\* center kept at the pixels the last click resolved it to
InsideIn(r) == handleCircleClick(holePosition, r, click.clickX, click.clickY)

InsideAtCenter(r) ==
    isClickInsideCircle(DecInt(click.clickX), DecInt(click.clickY),
                        click.centerXPx, click.centerYPx, InsideIn(r).radiusPx)

\* C15: in the hit-test a percentage radius is taken of the smaller of the
\* container's width and height and a px radius is its magnitude, while
\* the center's x is taken of the width and its y of the height; so for a
\* percentage-sized circle the answer stays when the larger dimension
\* grows and the click and the center's pixels stay
C15_RadiusAgainstMin ==
    (click.kind = "circle" /\ ~click.thrown) =>
        /\ IsPixelsOf(click.radiusPx, RadiusOf(holePosition), Min(rect.width, rect.height))
        /\ IsPixelsOf(click.centerXPx, LengthOf(holePosition.x), rect.width)
        /\ IsPixelsOf(click.centerYPx, LengthOf(holePosition.y), rect.height)
        /\ \A d \in {1, 500} :
              /\ InsideIn(Grown(rect, d)).radiusPx = click.radiusPx
              /\ InsideAtCenter(Grown(rect, d)) = click.inside
              /\ (LengthOf(holePosition.x).unit = T_px /\ LengthOf(holePosition.y).unit = T_px) =>
                    InsideIn(Grown(rect, d)).inside = click.inside

\* a 50% circle centered at (60px, 60px) of a 1000 by 800 container: the
\* radius is 200, a quarter of the height and not of the width, and the
\* click at (50, 50) is inside
C15_Witness ==
    /\ click.kind = "circle"
    /\ ~click.thrown
    /\ holePosition.size = P_50pct
    /\ holePosition.x = P_60px
    /\ holePosition.y = P_60px
    /\ rect = [width |-> 1000, height |-> 800]
    /\ click.radiusPx = DecInt(200)
    /\ click.clickX = 50
    /\ click.clickY = 50
    /\ click.inside

=============================================================================
